---- MODULE Spec2Model ----
(***************************************************************************)
(* Model of scripts/miqa_sync_datasets.py: the value coercion              *)
(* (coerce_value), the CSV ingestion (read_csv_items, with the rows that   *)
(* csv.DictReader hands it) and the control flow of main with its exit     *)
(* codes and its single HTTP POST.                                         *)
(*                                                                         *)
(* A Python str is a sequence of characters; a character is a one-letter   *)
(* string, except two non-ASCII characters that are named: "sup2" is       *)
(* U+00B2 SUPERSCRIPT TWO (str.isdigit() is true, int() rejects it) and    *)
(* "ar3" is U+0663 ARABIC-INDIC DIGIT THREE (a decimal digit, value 3).    *)
(***************************************************************************)
EXTENDS Integers, Sequences, FiniteSets, TLC

VARIABLES
    pc,          \* position of the run in main / read_csv_items
    env,         \* the settings main read from the environment (lines 81-92)
    exit_code,   \* the process exit status, -1 while the run is going
    exc,         \* what ended the run: "" | "SystemExit" (raised by err()) | an uncaught exception
    err_msg,     \* what err() named: [what, name, line]
    fieldnames,  \* reader.fieldnames
    lines,       \* the physical data lines the reader has consumed so far (after the header)
    row_idx,     \* the enumerate(reader, start=2) counter: index of the NEXT row
    items,       \* read_csv_items: items
    warnings,    \* read_csv_items: warnings
    seen_names,  \* read_csv_items: seen_names
    returned,    \* what read_csv_items returned to main: <<>> or <<[items, warnings]>>
    posts,       \* number of requests.post calls issued
    resp,        \* resp.status_code, 0 before a response
    raw,         \* argument of the coerce_value call under test
    ret          \* its outcome, NotCalled before the call

vars == <<pc, env, exit_code, exc, err_msg, fieldnames, lines, row_idx, items,
          warnings, seen_names, returned, posts, resp, raw, ret>>

(***************************************************************************)
(* Bounds                                                                  *)
(***************************************************************************)
MaxLen == 4      \* longest string of the exhaustive coerce_value inputs
MaxRows == 3     \* most physical data lines of a CSV file

(***************************************************************************)
(* Python values                                                           *)
(***************************************************************************)
PyNone == [t |-> "None"]
PyStr(s) == [t |-> "str", s |-> s]
PyList(l) == [t |-> "list", l |-> l]
PyBool(b) == [t |-> "bool", b |-> b]
PyInt(n) == [t |-> "int", n |-> n]
\* a finite float is (-1)^neg * mant * 10^exp with mant not a multiple of 10 (0.0 is mant 0, exp 0)
PyFloat(neg, mant, exp) == [t |-> "float", neg |-> neg, mant |-> mant, exp |-> exp]
PyInf(neg) == [t |-> "float", inf |-> TRUE, neg |-> neg]
PyNan == [t |-> "float", nan |-> TRUE]
Raised(e) == [t |-> "raise", e |-> e]
NotCalled == [t |-> "not called"]

(***************************************************************************)
(* Characters and str methods                                              *)
(***************************************************************************)
Uppers == <<"A","B","C","D","E","F","G","H","I","J","K","L","M",
            "N","O","P","Q","R","S","T","U","V","W","X","Y","Z">>
Lowers == <<"a","b","c","d","e","f","g","h","i","j","k","l","m",
            "n","o","p","q","r","s","t","u","v","w","x","y","z">>

Whitespace == {" ", "\t", "\n", "\r"}

AsciiDigits == <<"0","1","2","3","4","5","6","7","8","9">>

\* Unicode category Nd: what int() and float() read as a digit
IsDecimalCh(c) == c = "ar3" \/ \E i \in 1..10 : AsciiDigits[i] = c

DigitValue(c) == IF c = "ar3" THEN 3 ELSE (CHOOSE i \in 1..10 : AsciiDigits[i] = c) - 1

\* str.isdigit() per character: Nd and the other Numeric_Type=Digit characters
IsDigitCh(c) == IsDecimalCh(c) \/ c = "sup2"

\* str.isdigit(): non-empty and every character a digit
isdigit(s) == Len(s) > 0 /\ \A i \in 1..Len(s) : IsDigitCh(s[i])

LowerCh(c) == IF \E i \in 1..26 : Uppers[i] = c
              THEN Lowers[CHOOSE i \in 1..26 : Uppers[i] = c]
              ELSE c

\* str.lower()
lower(s) == [i \in 1..Len(s) |-> LowerCh(s[i])]

RECURSIVE lstrip(_)
lstrip(s) == IF s # <<>> /\ Head(s) \in Whitespace THEN lstrip(Tail(s)) ELSE s

RECURSIVE rstrip(_)
rstrip(s) == IF s # <<>> /\ s[Len(s)] \in Whitespace
             THEN rstrip(SubSeq(s, 1, Len(s) - 1))
             ELSE s

\* str.strip()
strip(s) == rstrip(lstrip(s))

\* str.startswith("-")
startswith_minus(s) == s # <<>> /\ Head(s) = "-"

\* index of the first character of s that is in set cs, 0 when there is none
FirstIn(s, cs) == IF \E i \in 1..Len(s) : s[i] \in cs
                  THEN CHOOSE i \in 1..Len(s) : s[i] \in cs /\ \A j \in 1..(i - 1) : s[j] \notin cs
                  ELSE 0

(***************************************************************************)
(* int(s) and float(s) of the Python runtime                               *)
(***************************************************************************)
\* digitpart ::= digit (["_"] digit)*
IsDigitPart(s) ==
    /\ Len(s) > 0
    /\ IsDecimalCh(s[1]) /\ IsDecimalCh(s[Len(s)])
    /\ \A i \in 1..Len(s) : IsDecimalCh(s[i]) \/ s[i] = "_"
    /\ \A i \in 1..(Len(s) - 1) : ~(s[i] = "_" /\ s[i + 1] = "_")

RECURSIVE DigitsValueAcc(_, _)
DigitsValueAcc(s, acc) ==
    IF s = <<>> THEN acc
    ELSE IF Head(s) = "_" THEN DigitsValueAcc(Tail(s), acc)
    ELSE DigitsValueAcc(Tail(s), 10 * acc + DigitValue(Head(s)))

\* the number a digitpart denotes
DigitsValue(s) == DigitsValueAcc(s, 0)

\* how many digits a digitpart holds
DigitCount(s) == Cardinality({i \in 1..Len(s) : s[i] # "_"})

HasSign(s) == s # <<>> /\ Head(s) \in {"-", "+"}
Unsigned(s) == IF HasSign(s) THEN Tail(s) ELSE s
IsNeg(s) == s # <<>> /\ Head(s) = "-"

\* int(s) for an already stripped s: [ok, n]; ok = FALSE is ValueError
int(s) ==
    IF IsDigitPart(Unsigned(s))
    THEN [ok |-> TRUE,
          n |-> IF IsNeg(s) THEN 0 - DigitsValue(Unsigned(s)) ELSE DigitsValue(Unsigned(s))]
    ELSE [ok |-> FALSE, n |-> 0]

RECURSIVE Pow10(_)
Pow10(k) == IF k = 0 THEN 1 ELSE 10 * Pow10(k - 1)

RECURSIVE NumDigits(_)
NumDigits(n) == IF n < 10 THEN 1 ELSE 1 + NumDigits(n \div 10)

\* mant * 10^exp with the trailing zeros of mant moved into exp
RECURSIVE Normalize(_, _, _)
Normalize(neg, mant, exp) ==
    IF mant = 0 THEN PyFloat(neg, 0, 0)
    ELSE IF mant % 10 = 0 THEN Normalize(neg, mant \div 10, exp + 1)
    ELSE PyFloat(neg, mant, exp)

\* the double that mant * 10^exp (mant of at most nine digits) rounds to: infinity
\* from 1.797693135e308 on, zero up to 2.47e-324; a result in the subnormal range
\* stands for the double nearest to it
Rounded(neg, mant, exp) ==
    LET f == Normalize(neg, mant, exp)
        order == NumDigits(f.mant) + f.exp - 1
        lead == f.mant * Pow10(9 - NumDigits(f.mant))
    IN  IF f.mant = 0 THEN f
        ELSE IF order > 308 \/ (order = 308 /\ lead >= 179769314) THEN PyInf(neg)
        ELSE IF order < -324 \/ (order = -324 /\ lead <= 247032822) THEN PyFloat(neg, 0, 0)
        ELSE f

\* float(s) for an already stripped s: [ok, v]; ok = FALSE is ValueError
\*   [sign] ("inf" | "infinity" | "nan" | number), case-insensitive
\*   number ::= (digitpart ["." [digitpart]] | "." digitpart) [("e"|"E") [sign] digitpart]
float(s) ==
    LET u == Unsigned(s)
        neg == IsNeg(s)
        ePos == FirstIn(u, {"e", "E"})
        m == IF ePos = 0 THEN u ELSE SubSeq(u, 1, ePos - 1)
        x == IF ePos = 0 THEN <<>> ELSE SubSeq(u, ePos + 1, Len(u))
        dPos == FirstIn(m, {"."})
        ip == IF dPos = 0 THEN m ELSE SubSeq(m, 1, dPos - 1)
        fp == IF dPos = 0 THEN <<>> ELSE SubSeq(m, dPos + 1, Len(m))
        mantOk == /\ ip = <<>> \/ IsDigitPart(ip)
                  /\ fp = <<>> \/ IsDigitPart(fp)
                  /\ ~(ip = <<>> /\ fp = <<>>)
        expOk == ePos = 0 \/ IsDigitPart(Unsigned(x))
        e == IF ePos = 0 THEN 0
             ELSE IF IsNeg(x) THEN 0 - DigitsValue(Unsigned(x)) ELSE DigitsValue(Unsigned(x))
        mant == DigitsValue(ip \o fp)
        fail == [ok |-> FALSE, v |-> PyNone]
    IN  IF lower(u) \in {<<"i","n","f">>, <<"i","n","f","i","n","i","t","y">>}
        THEN [ok |-> TRUE, v |-> PyInf(neg)]
        ELSE IF lower(u) = <<"n","a","n">> THEN [ok |-> TRUE, v |-> PyNan]
        ELSE IF mantOk /\ expOk
        THEN [ok |-> TRUE, v |-> Rounded(neg, mant, e - DigitCount(fp))]
        ELSE fail

(***************************************************************************)
(* coerce_value (lines 16-39)                                              *)
(***************************************************************************)
\* line 17, `raw or ""`: None, "" and [] are falsy
OrEmpty(r) ==
    IF r.t = "None" THEN PyStr(<<>>)
    ELSE IF r.t = "str" /\ r.s = <<>> THEN PyStr(<<>>)
    ELSE IF r.t = "list" /\ r.l = <<>> THEN PyStr(<<>>)
    ELSE r

\* line 22
IsBoolWord(low) == low \in {<<"t","r","u","e">>, <<"f","a","l","s","e">>}

\* mutant of IntGuard: int() tried on every string
IntGuardAny(s) == TRUE

\* line 27: the guard of the int branch
IntGuard(s) == isdigit(s) \/ (startswith_minus(s) /\ isdigit(Tail(s)))

\* mutant of FloatGuard: float() tried on every string
FloatGuardAny(s) == TRUE

\* line 34: the guard of the float branch
FloatGuard(s) == \E i \in 1..Len(s) : s[i] \in {".", "e", "E"}

\* lines 32-39: the float attempt, then the string itself
FloatOrStr(s) ==
    IF FloatGuard(s) /\ float(s).ok THEN float(s).v ELSE PyStr(s)

\* lines 18-39, for the stripped string s
CoerceStripped(s) ==
    IF s = <<>> THEN PyNone
    ELSE IF IsBoolWord(lower(s)) THEN PyBool(lower(s) = <<"t","r","u","e">>)
    ELSE IF IntGuard(s) /\ int(s).ok THEN PyInt(int(s).n)
    ELSE FloatOrStr(s)

\* line 17 and on: a list has no strip(), which raises AttributeError
coerce_value(r) ==
    IF OrEmpty(r).t = "str" THEN CoerceStripped(strip(OrEmpty(r).s))
    ELSE Raised("AttributeError")

(***************************************************************************)
(* csv.DictReader as read_csv_items uses it (lines 50-57)                  *)
(***************************************************************************)
\* the key DictReader files surplus cells under (restkey = None)
RestKey == "<None>"

\* the cells a line of the file may hold
Cells == {<<" ">>, <<"x">>, <<" ", "x">>, <<"7">>}

\* the physical lines after the header: the blank line, and lines of one, two or
\* three cells (one cell more than the widest header)
Lines ==
    {<<>>} \cup {<<c>> : c \in Cells} \cup {<<c, d>> : c \in Cells, d \in Cells}
           \cup {<<c, <<"7">>, <<"x">> >> : c \in {<<" ">>, <<"x">>}}

\* what line 1 of the file parses to: <<>> is an empty file or a blank first line
Headers == {<<>>, <<"a">>, <<"name", "a">>, <<"a", "name">>}

\* DictReader.__next__: dict(zip(fieldnames, row)), surplus cells as a list under
\* restkey, missing cells as restval = None
DictRow(fn, cells) ==
    LET keys == {fn[i] : i \in 1..Len(fn)}
        last(k) == CHOOSE i \in 1..Len(fn) : fn[i] = k /\ \A j \in (i + 1)..Len(fn) : fn[j] # k
    IN  [k \in keys \cup (IF Len(cells) > Len(fn) THEN {RestKey} ELSE {}) |->
            IF k \in keys
            THEN IF last(k) <= Len(cells) THEN PyStr(cells[last(k)]) ELSE PyNone
            ELSE PyList(SubSeq(cells, Len(fn) + 1, Len(cells)))]

(***************************************************************************)
(* read_csv_items, one row (lines 57-75)                                   *)
(***************************************************************************)
\* mutant of RowName: the name taken without strip()
RowNameUntrimmed(row) == OrEmpty(row["name"]).s

\* line 58: (row.get("name") or "").strip()
RowName(row) == strip(OrEmpty(row["name"]).s)

\* line 60
MissingNameWarning(n) == [text |-> "Line N: missing name; skipped", N |-> n]

\* lines 67-70: the columns coerce_value is called on
OtherKeys(row) == DOMAIN row \ {"name"}

\* mutant of KeptKeys: no test of cv against None
KeptKeysAll(row) == OtherKeys(row)

\* lines 70-72: the columns that stay in the item
KeptKeys(row) == {k \in OtherKeys(row) : coerce_value(row[k]) # PyNone}

\* lines 66-73
BuildItem(row) ==
    [k \in {"name"} \cup KeptKeys(row) |->
        IF k = "name" THEN PyStr(RowName(row)) ELSE coerce_value(row[k])]

\* whether a coerce_value call of lines 67-73 raises
ItemRaises(row) == \E k \in OtherKeys(row) : coerce_value(row[k]).t = "raise"

(***************************************************************************)
(* main (lines 80-165)                                                     *)
(***************************************************************************)
\* MIQA_TIMEOUT: unset (the default "60" applies), or a string
TimeoutSettings == {PyNone, PyStr(<<" ", "6", "0">>), PyStr(<<>>), PyStr(<<"3", "0", "s">>)}

\* the settings as lines 81-92 hold them after strip()/lower(): whether the
\* required ones are non-empty, the format word, the timeout (the int of line 91,
\* or the setting int() rejected), the dry-run flag
Envs ==
    [app_key : BOOLEAN, base_url : BOOLEAN, pipeline_id : BOOLEAN,
     source_format : {"csv", "json"}, timeout : TimeoutSettings, dry_run : BOOLEAN]

\* before line 81
NoEnv == [app_key |-> FALSE, base_url |-> FALSE, pipeline_id |-> FALSE,
          source_format |-> "", timeout |-> PyNone, dry_run |-> FALSE]

\* line 91: int(os.environ.get("MIQA_TIMEOUT", "60")); int() strips whitespace itself
TimeoutParse(setting) ==
    IF setting = PyNone THEN int(<<"6", "0">>) ELSE int(strip(setting.s))

\* the status codes a response may carry
Statuses == {199, 200, 299, 300}

NoErr == [what |-> "", name |-> <<>>, line |-> 0]

\* err(msg, code) (lines 11-13): SystemExit(code)
Err(what, name, line, code) ==
    /\ exc' = "SystemExit"
    /\ err_msg' = [what |-> what, name |-> name, line |-> line]
    /\ exit_code' = code
    /\ pc' = "done"

\* an exception nothing catches: the interpreter prints the traceback and exits 1
Uncaught(e) ==
    /\ exc' = e
    /\ err_msg' = err_msg
    /\ exit_code' = 1
    /\ pc' = "done"

Continue(next) ==
    /\ pc' = next
    /\ UNCHANGED <<exc, err_msg, exit_code>>

Init ==
    /\ pc = "start"
    /\ env = NoEnv
    /\ exit_code = -1
    /\ exc = ""
    /\ err_msg = NoErr
    /\ fieldnames = <<>>
    /\ lines = <<>>
    /\ row_idx = 0
    /\ items = <<>>
    /\ warnings = <<>>
    /\ seen_names = {}
    /\ returned = <<>>
    /\ posts = 0
    /\ resp = 0
    /\ raw = PyNone
    /\ ret = NotCalled

\* lines 81-92
ReadEnv ==
    /\ pc = "start"
    /\ \E e \in Envs :
        IF TimeoutParse(e.timeout).ok
        THEN /\ env' = [e EXCEPT !.timeout = PyInt(TimeoutParse(e.timeout).n)]
             /\ Continue("check")
        ELSE /\ env' = e
             /\ Uncaught("ValueError")
    /\ UNCHANGED <<fieldnames, lines, row_idx, items, warnings, seen_names, returned,
                   posts, resp, raw, ret>>

\* lines 94-101
CheckConfig ==
    /\ pc = "check"
    /\ IF ~env.app_key THEN Err("Missing MIQA_APP_KEY", <<>>, 0, 2)
       ELSE IF ~env.base_url THEN Err("Missing MIQA_BASE_URL", <<>>, 0, 2)
       ELSE IF ~env.pipeline_id THEN Err("Missing MIQA_PIPELINE_ID", <<>>, 0, 2)
       ELSE IF env.source_format # "csv" THEN Err("Unsupported source_format", <<>>, 0, 2)
       ELSE Continue("open")
    /\ UNCHANGED <<env, fieldnames, lines, row_idx, items, warnings, seen_names,
                   returned, posts, resp, raw, ret>>

\* lines 139, 43-57: the call of read_csv_items up to the loop
OpenCsv ==
    /\ pc = "open"
    /\ \E exists \in BOOLEAN, h \in Headers :
        IF ~exists
        THEN Err("source_path not found", <<>>, 0, 2) /\ UNCHANGED <<fieldnames, row_idx>>
        ELSE IF h = <<>>
        THEN Err("CSV missing header row", <<>>, 0, 2) /\ UNCHANGED <<fieldnames, row_idx>>
        ELSE IF \A i \in 1..Len(h) : h[i] # "name"
        THEN /\ Err("CSV must include a 'name' column", <<>>, 0, 2)
             /\ fieldnames' = h
             /\ UNCHANGED row_idx
        ELSE /\ Continue("rows")
             /\ fieldnames' = h
             /\ row_idx' = 2
    /\ UNCHANGED <<env, lines, items, warnings, seen_names, returned, posts, resp, raw, ret>>

\* DictReader.__next__ passes over a blank line: enumerate does not count it
SkipBlankLine ==
    /\ pc = "rows"
    /\ Len(lines) < MaxRows
    /\ lines' = Append(lines, <<>>)
    /\ UNCHANGED <<pc, env, exit_code, exc, err_msg, fieldnames, row_idx, items, warnings,
                   seen_names, returned, posts, resp, raw, ret>>

\* lines 57-75: one turn of the loop
ProcessRow ==
    /\ pc = "rows"
    /\ Len(lines) < MaxRows
    /\ \E ln \in Lines \ {<<>>} :
        LET row == DictRow(fieldnames, ln)
            name == RowName(row)
        IN  /\ lines' = Append(lines, ln)
            /\ IF name = <<>>
               THEN /\ warnings' = Append(warnings, MissingNameWarning(row_idx))
                    /\ row_idx' = row_idx + 1
                    /\ Continue("rows")
                    /\ UNCHANGED <<items, seen_names>>
               ELSE IF name \in seen_names
               THEN /\ Err("Duplicate name", name, row_idx, 2)
                    /\ UNCHANGED <<items, warnings, seen_names, row_idx>>
               ELSE IF ItemRaises(row)
               THEN /\ Uncaught("AttributeError")
                    /\ seen_names' = seen_names \cup {name}
                    /\ UNCHANGED <<items, warnings, row_idx>>
               ELSE /\ seen_names' = seen_names \cup {name}
                    /\ items' = Append(items, BuildItem(row))
                    /\ row_idx' = row_idx + 1
                    /\ Continue("rows")
                    /\ UNCHANGED warnings
    /\ UNCHANGED <<env, fieldnames, returned, posts, resp, raw, ret>>

\* lines 77, 139-143: the reader is exhausted, read_csv_items returns
ReturnItems ==
    /\ pc = "rows"
    /\ returned' = <<[items |-> items, warnings |-> warnings]>>
    /\ Continue("ingested")
    /\ UNCHANGED <<env, fieldnames, lines, row_idx, items, warnings, seen_names,
                   posts, resp, raw, ret>>

\* lines 145-152
DryRun ==
    /\ pc = "ingested"
    /\ env.dry_run
    /\ exit_code' = 0
    /\ pc' = "done"
    /\ UNCHANGED <<env, exc, err_msg, fieldnames, lines, row_idx, items, warnings,
                   seen_names, returned, posts, resp, raw, ret>>

\* the 2xx test of line 165
ExitOf(status) == IF 200 <= status /\ status < 300 THEN 0 ELSE 1

\* mutant of Post: the request sent without regard to dry_run
PostIgnoringDryRun ==
    /\ pc = "ingested"
    /\ posts' = posts + 1
    /\ \/ Err("Request failed", <<>>, 0, 1) /\ UNCHANGED resp
       \/ \E s \in Statuses :
            /\ resp' = s
            /\ exit_code' = ExitOf(s)
            /\ pc' = "done"
            /\ UNCHANGED <<exc, err_msg>>
    /\ UNCHANGED <<env, fieldnames, lines, row_idx, items, warnings, seen_names,
                   returned, raw, ret>>

\* lines 154-165: the request, then the exit code its response decides
Post ==
    /\ pc = "ingested"
    /\ ~env.dry_run
    /\ posts' = posts + 1
    /\ \/ Err("Request failed", <<>>, 0, 1) /\ UNCHANGED resp
       \/ \E s \in Statuses :
            /\ resp' = s
            /\ exit_code' = ExitOf(s)
            /\ pc' = "done"
            /\ UNCHANGED <<exc, err_msg>>
    /\ UNCHANGED <<env, fieldnames, lines, row_idx, items, warnings, seen_names,
                   returned, raw, ret>>

Next ==
    \/ ReadEnv
    \/ CheckConfig
    \/ OpenCsv
    \/ SkipBlankLine
    \/ ProcessRow
    \/ ReturnItems
    \/ DryRun
    \/ Post

Spec == Init /\ [][Next]_vars

(***************************************************************************)
(* coerce_value on its own: every string over Alphabet up to MaxLen, the   *)
(* strings the documentation names, and the non-strings DictReader passes  *)
(***************************************************************************)
Alphabet == {"1", "-", "+", ".", "e", " ", "a", "sup2"}

RECURSIVE Strings(_)
Strings(n) ==
    IF n = 0 THEN {<<>>}
    ELSE Strings(n - 1) \cup {Append(s, c) : s \in Strings(n - 1), c \in Alphabet}

Samples ==
    { <<"t","r","u","e">>, <<"F","A","L","S","E">>, <<"T","r","u","e">>,
      <<" ","f","a","l","s","e","\t">>, <<"t","r","u","e","1">>,
      <<"4","2">>, <<"-","7">>, <<" ","4","2"," ">>, <<"-","0">>, <<"0","0","7">>,
      <<"3",".","1","4">>, <<"a","b","c">>, <<"h","e","l","l","o">>,
      <<"-">>, <<"-","-","5">>, <<"+","5">>, <<"1","_","0">>, <<"5","-">>,
      <<"1",".","2",".","3">>, <<"a","b","c",".","d","e","f">>,
      <<"1","E","5">>, <<"1","e","-","3">>, <<"-",".","5","e","+","1">>, <<"5",".">>,
      <<"1","_","0",".","5">>, <<"1","0","0",".","0">>, <<"-","0",".","0">>,
      <<"2","e","3","0","8">>, <<"1","e","9","9","9">>, <<"1","e","-","9","9","9">>,
      <<"i","n","f">>, <<"n","a","n">>, <<"I","n","f","i","n","i","t","y">>,
      <<"1","e","i","n","f">>, <<"0","x","1","e">>,
      <<"ar3">>, <<"-","ar3","5">>, <<"ar3",".","5">>, <<"sup2","5">>, <<"1","sup2">> }

CoerceInputs ==
    {PyStr(s) : s \in Strings(MaxLen) \cup Samples}
        \cup {PyNone, PyList(<<>>), PyList(<< <<"7">> >>)}

InitCoerce ==
    /\ pc = "coerce"
    /\ raw \in CoerceInputs
    /\ ret = NotCalled
    /\ env = NoEnv
    /\ exit_code = -1
    /\ exc = ""
    /\ err_msg = NoErr
    /\ fieldnames = <<>>
    /\ lines = <<>>
    /\ row_idx = 0
    /\ items = <<>>
    /\ warnings = <<>>
    /\ seen_names = {}
    /\ returned = <<>>
    /\ posts = 0
    /\ resp = 0

\* one call of coerce_value (lines 16-39)
Coerce ==
    /\ pc = "coerce"
    /\ ret' = coerce_value(raw)
    /\ pc' = "coerced"
    /\ UNCHANGED <<env, exit_code, exc, err_msg, fieldnames, lines, row_idx, items,
                   warnings, seen_names, returned, posts, resp, raw>>

NextCoerce == Coerce

SpecCoerce == InitCoerce /\ [][NextCoerce]_vars

(***************************************************************************)
(* Properties                                                              *)
(***************************************************************************)
\* the file has been opened and its header accepted
Opened == row_idx >= 2

\* the dict DictReader makes of physical line ln
RowOf(ln) == DictRow(fieldnames, ln)

\* the consumed lines that are data rows with a non-blank name, in file order
NamedLines == SelectSeq(lines, LAMBDA ln : ln # <<>> /\ RowName(RowOf(ln)) # <<>>)

\* their trimmed names
NamesOfLines == [i \in 1..Len(NamedLines) |-> RowName(RowOf(NamedLines[i]))]

NamesOf(recs) == [i \in 1..Len(recs) |-> recs[i]["name"]]

Distinct(seq) == \A i \in 1..Len(seq), j \in 1..Len(seq) : i # j => seq[i] # seq[j]

HasResult == returned # <<>>

\* every record is named by a non-empty trimmed string and no name occurs twice
WellNamed(recs) ==
    /\ \A i \in 1..Len(recs) :
        /\ "name" \in DOMAIN recs[i]
        /\ recs[i]["name"].t = "str"
        /\ recs[i]["name"].s # <<>>
        /\ strip(recs[i]["name"].s) = recs[i]["name"].s
    /\ Distinct(NamesOf(recs))

\* C1: every record of the result of read_csv_items (and of the items gathered
\* so far) has a non-empty trimmed string as its name, and no two records of a
\* result share a name.
C1_NamesNonEmptyUnique ==
    /\ WellNamed(items)
    /\ HasResult => WellNamed(returned[1].items)

\* a result of two records, one of them named by the cell " x"
C1_Witness ==
    /\ HasResult
    /\ Len(returned[1].items) >= 2
    /\ \E i \in 1..Len(NamedLines) : RowOf(NamedLines[i])["name"] = PyStr(<<" ", "x">>)

\* C2: for a CSV whose non-blank names are pairwise distinct, read_csv_items
\* yields exactly one record per data row with a non-empty trimmed name, in the
\* order of those rows; blank-name rows yield no record.
C2_OneRecordPerNamedRow ==
    (Opened /\ Distinct(NamesOfLines)) =>
        /\ NamesOf(items) = [i \in 1..Len(NamesOfLines) |-> PyStr(NamesOfLines[i])]
        /\ exc = "" \/ err_msg.what = "Request failed"
        /\ HasResult => returned[1].items = items

\* the source line of the row read last: the header is line 1
LastLineNo == Len(lines) + 1

\* the read of the last line met a name seen before
DuplicateMet ==
    /\ Opened
    /\ lines # <<>>
    /\ lines[Len(lines)] # <<>>
    /\ RowName(RowOf(lines[Len(lines)])) # <<>>
    /\ \E i \in 1..(Len(lines) - 1) :
        /\ lines[i] # <<>>
        /\ RowName(RowOf(lines[i])) = RowName(RowOf(lines[Len(lines)]))

\* C3: a row whose trimmed name equals that of an earlier row makes
\* read_csv_items fail at once with a duplicate-name error naming the duplicate
\* and its line: exit code 2, nothing returned, no request, no warning for it.
C3_DuplicateIsFatal ==
    DuplicateMet =>
        /\ pc = "done"
        /\ exc = "SystemExit"
        /\ exit_code = 2
        /\ err_msg = [what |-> "Duplicate name",
                      name |-> RowName(RowOf(lines[Len(lines)])),
                      line |-> LastLineNo]
        /\ ~HasResult
        /\ posts = 0

\* the source line numbers of the consumed rows whose trimmed name is empty
BlankNameLineNos ==
    SelectSeq([i \in 1..Len(lines) |-> i + 1],
              LAMBDA n : lines[n - 1] # <<>> /\ RowName(RowOf(lines[n - 1])) = <<>>)

\* C4: each data row with an empty trimmed name adds exactly the warning
\* "Line N: missing name; skipped", N its 1-based source line number (header 1,
\* first data line 2), adds no record and does not end the run; the warnings
\* are in source order.
C4_BlankNameWarning ==
    Opened =>
        warnings = [i \in 1..Len(BlankNameLineNos) |-> MissingNameWarning(BlankNameLineNos[i])]

\* C5: no record maps a field to null: a column other than "name" is in the
\* record of its row exactly when coerce_value of its cell is not null, and
\* then holds the coerced value.
C5_NullFieldsOmitted ==
    /\ LET named == NamedLines
       IN  \A j \in 1..Len(items) :
             LET row == RowOf(named[j])
             IN  /\ \A k \in DOMAIN items[j] : items[j][k] # PyNone
                 /\ \A i \in 1..Len(fieldnames) :
                       LET k == fieldnames[i]
                           cv == coerce_value(row[k])
                       IN  k # "name" =>
                             /\ (k \in DOMAIN items[j]) <=> (cv # PyNone)
                             /\ k \in DOMAIN items[j] => items[j][k] = cv
    /\ HasResult => returned[1].items = items

\* a result with a record that kept its "a" and a record that dropped it
C5_Witness ==
    /\ HasResult
    /\ \E i \in 1..Len(items), j \in 1..Len(items) :
        /\ "a" \in DOMAIN items[i]
        /\ "a" \notin DOMAIN items[j]

\* C6: coerce_value is total: no call raises, whether on a string or on a cell
\* value read_csv_items hands it, rows shorter or longer than the header included.
C6_CoerceTotal ==
    /\ ret.t \in {"not called", "None", "bool", "int", "float", "str"}
    /\ exc # "AttributeError"

\* optional single "-" and then one or more decimal digits, nothing else
IsIntNumeral(s) ==
    LET d == IF s # <<>> /\ s[1] = "-" THEN Tail(s) ELSE s
    IN  d # <<>> /\ \A i \in 1..Len(d) : IsDecimalCh(d[i])

RECURSIVE NumeralValue(_)
NumeralValue(d) ==
    IF d = <<>> THEN 0
    ELSE DigitValue(d[Len(d)]) + 10 * NumeralValue(SubSeq(d, 1, Len(d) - 1))

SignedNumeralValue(s) ==
    IF s[1] = "-" THEN 0 - NumeralValue(Tail(s)) ELSE NumeralValue(s)

Called == pc = "coerced" /\ raw.t = "str"

HasFloatChar(s) == \E i \in 1..Len(s) : s[i] = "." \/ s[i] = "e" \/ s[i] = "E"

\* C8: for a trimmed input that is not empty, not a boolean word and not an
\* integer numeral, float parsing is attempted only if the value holds ".",
\* "e" or "E"; a successful parse is returned as that float, and otherwise
\* (the parse fails, as for "1.2.3", "abc.def", "hello", or no such character)
\* the trimmed string comes back unchanged, never an error, never null.
C8_FloatRule ==
    Called =>
        LET s == strip(raw.s)
        IN  (s # <<>> /\ ~IsBoolWord(lower(s)) /\ ~IsIntNumeral(s)) =>
              /\ ret.t \in {"float", "str"}
              /\ ret.t = "float" => HasFloatChar(s) /\ float(s).ok /\ ret = float(s).v
              /\ ret.t = "str" => ret.s = s /\ ~(HasFloatChar(s) /\ float(s).ok)
              /\ s \in { <<"1",".","2",".","3">>, <<"a","b","c",".","d","e","f">>,
                         <<"h","e","l","l","o">> } => ret = PyStr(s)

C8_Witness == Called /\ raw.s = <<"1",".","2",".","3">> /\ ret = PyStr(raw.s)

\* a value of the five settings lines 91-101 examine is missing or invalid
ConfigFailure ==
    \/ ~env.app_key
    \/ ~env.base_url
    \/ ~env.pipeline_id
    \/ env.source_format # "csv"
    \/ env.timeout.t # "int"

ParseFailure ==
    /\ exc = "SystemExit"
    /\ err_msg.what \in {"source_path not found", "CSV missing header row",
                         "CSV must include a 'name' column", "Duplicate name"}

Success == (posts = 1 /\ 200 <= resp /\ resp < 300) \/ (env.dry_run /\ HasResult /\ posts = 0)

TransportOrHttpFailure ==
    posts = 1 /\ (err_msg.what = "Request failed" \/ (resp # 0 /\ ~(200 <= resp /\ resp < 300)))

\* C9: every run of main ends with exit code 0, 1 or 2: 0 only on success, 1
\* only on a transport failure or a non-2xx response, 2 on every configuration
\* failure and every parse failure.
C9_ExitCodes ==
    pc = "done" =>
        /\ exit_code \in {0, 1, 2}
        /\ exit_code = 0 => Success
        /\ exit_code = 1 => TransportOrHttpFailure
        /\ ConfigFailure => exit_code = 2
        /\ ParseFailure => exit_code = 2

\* C10: the POST is issued at most once, and only after every configuration
\* check passed and read_csv_items returned; in dry-run mode, after a
\* configuration failure or after a failed ingestion none is sent.
C10_PostAtMostOnce ==
    /\ posts <= 1
    /\ posts = 1 => ~ConfigFailure /\ HasResult /\ ~env.dry_run
    /\ (pc # "start" /\ (env.dry_run \/ ConfigFailure)) => posts = 0
    /\ (ParseFailure \/ exc \in {"ValueError", "AttributeError"}) => posts = 0

C10_Witness == posts = 1 /\ pc = "done" /\ exit_code = 0 /\ Len(items) >= 1

====
